---- MODULE Spec2Model ----
(***************************************************************************)
(* Backend supervisor of src-tauri/src/lib.rs: the BackendState record     *)
(* {port, child}, the commands start_backend, stop_backend and             *)
(* get_backend_port, cleanup_backend with the window and menu handlers     *)
(* that call it, and the output relay task.                                *)
(*                                                                         *)
(* start_backend is an async command.  It takes each lock for one block    *)
(* and releases it before the next statement, and it awaits the health GET *)
(* and the sleeps with no lock held, so an invocation is a sequence of     *)
(* steps, one per locked block, per call to the environment and per await, *)
(* and concurrent invocations interleave between them.  stop_backend and   *)
(* cleanup_backend hold the child lock for their whole body and have no    *)
(* await, so each is one step.                                             *)
(*                                                                         *)
(* A process handle is modelled by the pid of its process; processes are   *)
(* numbered in the order they are spawned.  Besides the program state the  *)
(* model keeps the history the properties speak about: which processes     *)
(* were killed, recorded, relayed, and what each call saw and returned.    *)
(***************************************************************************)
EXTENDS Integers, FiniteSets, Sequences, TLC

\* ---- bounds of the model ----
MaxSpawns == 2          \* processes the OS lets the supervisor spawn
MaxItems == 3           \* items the backends write to their output streams

\* ---- program constants ----
InitialPort == 8000     \* run(): port: Mutex::new(8000)
MaxAttempts == 120      \* start_backend: for i in 0..120

\* two callers of start_backend, each invoking it again and again
Tasks == {1, 2}
\* process identifiers, 0 is "no process"
Pids == 1..MaxSpawns
\* ports pick_unused_port can return: a released port can be handed out
\* again, and two running processes can have a port each
Ports == {1, 2}
\* Option::None of BackendState.child
NoChild == 0
\* a Mutex nobody holds
Free == 0

OkResult == "Ok"
ErrPort == "Failed to find available port"
ErrSpawn == "Failed to spawn backend"
ErrKill == "kill error"
ErrTimeout == "Backend failed to start within timeout"
NoResult == "pending"

VARIABLES
    windows,      \* cfg(target_os = "windows") of the build
    port,         \* BackendState.port
    child,        \* BackendState.child: NoChild or the pid of the handle
    spawned,      \* number of processes spawned so far
    alive,        \* pids of the spawned processes that still run
    procPort,     \* pid -> port the running process is bound to
    killIssued,   \* pids on which child.kill() was called
    treeKilled,   \* pids on which kill_process_tree acted (taskkill)
    recorded,     \* pids whose handle was ever stored in child
    relayOn,      \* pids whose output relay task was spawned
    pc,           \* task -> position in start_backend
    needs,        \* task -> backend_needs_restart
    lport,        \* task -> local `port`
    i,            \* task -> loop variable of the probe loop
    mypid,        \* task -> pid of the child this call spawned (0: none)
    seen,         \* task -> child found recorded by the has_child check
    okOn,         \* task -> port whose health GET succeeded in this call
    sleeps,       \* task -> interval sleeps done in the probe loop
    probes,       \* task -> health GETs done in the probe loop
    result,       \* task -> what the call returned
    retPort,      \* task -> the port in Ok(port)
    stopRet,      \* what the last stop_backend returned
    menu,         \* position of the menu-event handler on the main thread
    notified,     \* restart-backend emits of the latest restart request
    quitSaw,      \* child recorded when the latest quit event arrived
    gotPort,      \* what the last get_backend_port returned (0: none yet)
    childLock,    \* holder of BackendState.child's Mutex
    portLock,     \* holder of BackendState.port's Mutex
    rx,           \* pid -> items waiting in the child's event channel
    closed,       \* pids whose event channel was closed by its sender
    received,     \* pid -> items rx.recv() has handed to the relay task
    emitted,      \* pid -> events the relay task emitted to the window
    relayDone     \* pids whose relay task has ended

shared == <<port, child, spawned, alive, procPort, killIssued, treeKilled,
            recorded, relayOn>>
locals == <<pc, needs, lport, i, mypid, seen, okOn, sleeps, probes, result,
            retPort>>
stops == <<stopRet>>
host == <<menu, notified, quitSaw, gotPort>>
locks == <<childLock, portLock>>
relays == <<rx, closed, received, emitted, relayDone>>
vars == <<windows, shared, locals, stops, host, locks, relays>>

\* ---- the environment ----

\* pick_unused_port: a port no running process is bound to
FreePorts == {p \in Ports : \A q \in alive : procPort[q] # p}

\* a GET /health on port p can be answered with a success status only by
\* a running backend bound to p
CanAnswer(p) == \E q \in alive : procPort[q] = p

\* ---- the locks ----

\* state.child.lock().unwrap() up to the end of the block that holds the
\* guard: the block has no await, it runs when the Mutex is free and leaves
\* it free
ChildGuard == childLock = Free /\ childLock' = Free /\ UNCHANGED portLock

\* state.port.lock().unwrap() up to the end of its block
PortGuard == portLock = Free /\ portLock' = Free /\ UNCHANGED childLock

\* ---- Terminator ----

\* child.kill(): the processes running after it; killOk: it returned Ok
kill(running, pid, killOk) == IF killOk THEN running \ {pid} ELSE running

\* kill_process_tree(pid), lines 31-44: taskkill /F /T on Windows, nothing
\* elsewhere; treeOk: taskkill ended the process
kill_process_tree(running, pid, treeOk) ==
    IF windows /\ treeOk THEN running \ {pid} ELSE running

\* `let _ = child.kill();` then kill_process_tree(pid) on Windows
\* (start_backend lines 88-94, cleanup_backend lines 346-356)
Terminate(pid, killOk, treeOk) ==
    /\ killIssued' = killIssued \cup {pid}
    /\ treeKilled' = IF windows THEN treeKilled \cup {pid} ELSE treeKilled
    /\ alive' = kill_process_tree(kill(alive, pid, killOk), pid, treeOk)
    /\ procPort' = [procPort EXCEPT ![pid] = IF pid \in alive' THEN @ ELSE 0]

\* ---- start_backend ----

\* lines 54-57 and 80-82: the command is invoked (tauri runs each invocation
\* as its own task) and reads has_child under the child lock
CheckChild(t) ==
    /\ pc[t] \in {"idle", "done"}
    /\ seen' = [seen EXCEPT ![t] = child]
    /\ pc' = [pc EXCEPT ![t] = IF child # NoChild THEN "readport" ELSE "alloc"]
    /\ needs' = [needs EXCEPT ![t] = FALSE]
    /\ lport' = [lport EXCEPT ![t] = 0]
    /\ i' = [i EXCEPT ![t] = 0]
    /\ mypid' = [mypid EXCEPT ![t] = 0]
    /\ okOn' = [okOn EXCEPT ![t] = 0]
    /\ sleeps' = [sleeps EXCEPT ![t] = 0]
    /\ probes' = [probes EXCEPT ![t] = 0]
    /\ result' = [result EXCEPT ![t] = NoResult]
    /\ retPort' = [retPort EXCEPT ![t] = 0]
    /\ ChildGuard
    /\ UNCHANGED <<windows, host, relays, shared, stops>>

\* lines 61-64: read the port under the port lock
ReadPort(t) ==
    /\ pc[t] = "readport"
    /\ lport' = [lport EXCEPT ![t] = port]
    /\ pc' = [pc EXCEPT ![t] = "probe0"]
    /\ UNCHANGED <<needs, i, mypid, seen, okOn, sleeps, probes, result,
                   retPort>>
    /\ PortGuard
    /\ UNCHANGED <<windows, host, relays, shared, stops>>

\* the call returns: r is Ok or the error, p the port of Ok(port); what
\* belongs to the call (its locals, the child it saw and the one it spawned)
\* goes out of scope
Return(t, r, p) ==
    /\ result' = [result EXCEPT ![t] = r]
    /\ retPort' = [retPort EXCEPT ![t] = p]
    /\ lport' = [lport EXCEPT ![t] = 0]
    /\ i' = [i EXCEPT ![t] = 0]
    /\ needs' = [needs EXCEPT ![t] = FALSE]
    /\ mypid' = [mypid EXCEPT ![t] = 0]
    /\ seen' = [seen EXCEPT ![t] = NoChild]
    /\ pc' = [pc EXCEPT ![t] = "done"]

\* faulty variant: the healthy child is dropped from the state on the way out
ProbeHealthy_DropsChild(t) ==
    /\ pc[t] = "probe0"
    /\ CanAnswer(lport[t])
    /\ okOn' = [okOn EXCEPT ![t] = lport[t]]
    /\ Return(t, OkResult, lport[t])
    /\ child' = NoChild
    /\ UNCHANGED <<sleeps, probes>>
    /\ UNCHANGED <<port, spawned, alive, procPort, killIssued, treeKilled,
                   recorded, relayOn>>
    /\ UNCHANGED <<windows, host, locks, relays, stops>>

\* lines 69-73: the single immediate probe answered with a success status
ProbeHealthy(t) ==
    /\ pc[t] = "probe0"
    /\ CanAnswer(lport[t])
    /\ okOn' = [okOn EXCEPT ![t] = lport[t]]
    /\ Return(t, OkResult, lport[t])
    /\ UNCHANGED <<sleeps, probes>>
    /\ UNCHANGED <<windows, host, locks, relays, shared, stops>>

\* faulty variant: the probe that failed is taken for a success
ProbeStale_ReturnsOk(t) ==
    /\ pc[t] = "probe0"
    /\ Return(t, OkResult, lport[t])
    /\ UNCHANGED <<okOn, sleeps, probes>>
    /\ UNCHANGED <<windows, host, locks, relays, shared, stops>>

\* lines 74-78: any other outcome of the immediate probe
ProbeStale(t) ==
    /\ pc[t] = "probe0"
    /\ needs' = [needs EXCEPT ![t] = TRUE]
    /\ pc' = [pc EXCEPT ![t] = "teardown"]
    /\ UNCHANGED <<lport, i, mypid, seen, okOn, sleeps, probes, result,
                   retPort>>
    /\ UNCHANGED <<windows, host, locks, relays, shared, stops>>

\* faulty variant: the child is killed through a reference and stays recorded
Teardown_KeepsChild(t) ==
    /\ pc[t] = "teardown"
    /\ IF child # NoChild
         THEN /\ \E killOk \in BOOLEAN, treeOk \in BOOLEAN :
                    Terminate(child, killOk, treeOk)
              /\ child' = child
         ELSE UNCHANGED <<child, killIssued, treeKilled, alive, procPort>>
    /\ pc' = [pc EXCEPT ![t] = "alloc"]
    /\ UNCHANGED <<port, spawned, recorded, relayOn>>
    /\ UNCHANGED <<needs, lport, i, mypid, seen, okOn, sleeps, probes, result,
                   retPort>>
    /\ ChildGuard
    /\ UNCHANGED <<windows, host, relays, stops>>

\* lines 86-95: take the child out of the state and kill it
Teardown(t) ==
    /\ pc[t] = "teardown"
    /\ IF child # NoChild
         THEN /\ \E killOk \in BOOLEAN, treeOk \in BOOLEAN :
                    Terminate(child, killOk, treeOk)
              /\ child' = NoChild
         ELSE UNCHANGED <<child, killIssued, treeKilled, alive, procPort>>
    /\ pc' = [pc EXCEPT ![t] = "alloc"]
    /\ UNCHANGED <<port, spawned, recorded, relayOn>>
    /\ UNCHANGED <<needs, lport, i, mypid, seen, okOn, sleeps, probes, result,
                   retPort>>
    /\ ChildGuard
    /\ UNCHANGED <<windows, host, relays, stops>>

\* lines 98-99: pick_unused_port found a port
AllocPort(t) ==
    /\ pc[t] = "alloc"
    /\ \E p \in FreePorts : lport' = [lport EXCEPT ![t] = p]
    /\ pc' = [pc EXCEPT ![t] = "launch"]
    /\ UNCHANGED <<needs, i, mypid, seen, okOn, sleeps, probes, result,
                   retPort>>
    /\ UNCHANGED <<windows, host, locks, relays, shared, stops>>

\* lines 98-99: pick_unused_port returned None
AllocFail(t) ==
    /\ pc[t] = "alloc"
    /\ Return(t, ErrPort, 0)
    /\ UNCHANGED <<okOn, sleeps, probes>>
    /\ UNCHANGED <<windows, host, locks, relays, shared, stops>>

\* lines 102-121: the sidecar is spawned with --port <port>
Launch(t) ==
    /\ pc[t] = "launch"
    /\ spawned < MaxSpawns
    /\ spawned' = spawned + 1
    /\ alive' = alive \cup {spawned + 1}
    /\ procPort' = [procPort EXCEPT ![spawned + 1] = lport[t]]
    /\ mypid' = [mypid EXCEPT ![t] = spawned + 1]
    /\ pc' = [pc EXCEPT ![t] = "storechild"]
    /\ UNCHANGED <<port, child, killIssued, treeKilled, recorded, relayOn>>
    /\ UNCHANGED <<needs, lport, i, seen, okOn, sleeps, probes, result,
                   retPort>>
    /\ UNCHANGED <<windows, host, locks, relays, stops>>

\* faulty variant: the port is recorded before the spawn is known to succeed
LaunchFail_StoresPort(t) ==
    /\ pc[t] = "launch"
    /\ Return(t, ErrSpawn, 0)
    /\ port' = lport[t]
    /\ UNCHANGED <<okOn, sleeps, probes>>
    /\ UNCHANGED <<child, spawned, alive, procPort, killIssued, treeKilled,
                   recorded, relayOn>>
    /\ UNCHANGED <<windows, host, locks, relays, stops>>

\* lines 116-118: spawn() failed.  The `?` of app_data_dir (line 104) and of
\* sidecar("backend") (line 112) return from the same position with a message
\* of their own and change nothing either; they are not told apart here.
LaunchFail(t) ==
    /\ pc[t] = "launch"
    /\ Return(t, ErrSpawn, 0)
    /\ UNCHANGED <<okOn, sleeps, probes>>
    /\ UNCHANGED <<windows, host, locks, relays, shared, stops>>

\* faulty variant: the guard of the child lock is kept after the block
StoreChild_HoldsLock(t) ==
    /\ pc[t] = "storechild"
    /\ child' = mypid[t]
    /\ recorded' = recorded \cup {mypid[t]}
    /\ pc' = [pc EXCEPT ![t] = "storeport"]
    /\ UNCHANGED <<port, spawned, alive, procPort, killIssued, treeKilled,
                   relayOn>>
    /\ UNCHANGED <<needs, lport, i, mypid, seen, okOn, sleeps, probes, result,
                   retPort>>
    /\ childLock = Free /\ childLock' = t /\ UNCHANGED portLock
    /\ UNCHANGED <<windows, host, relays, stops>>

\* lines 124-127: *child_guard = Some(child); the handle that was there is
\* dropped, which does not kill its process
StoreChild(t) ==
    /\ pc[t] = "storechild"
    /\ child' = mypid[t]
    /\ recorded' = recorded \cup {mypid[t]}
    /\ pc' = [pc EXCEPT ![t] = "storeport"]
    /\ UNCHANGED <<port, spawned, alive, procPort, killIssued, treeKilled,
                   relayOn>>
    /\ UNCHANGED <<needs, lport, i, mypid, seen, okOn, sleeps, probes, result,
                   retPort>>
    /\ ChildGuard
    /\ UNCHANGED <<windows, host, relays, stops>>

\* lines 130-158: *port_guard = port, then the output relay task is spawned,
\* detached, with no await in between
StorePort(t) ==
    /\ pc[t] = "storeport"
    /\ port' = lport[t]
    /\ relayOn' = relayOn \cup {mypid[t]}
    /\ pc' = [pc EXCEPT ![t] = "sleep"]
    /\ UNCHANGED <<child, spawned, alive, procPort, killIssued, treeKilled,
                   recorded>>
    /\ UNCHANGED <<needs, lport, i, mypid, seen, okOn, sleeps, probes, result,
                   retPort>>
    /\ PortGuard
    /\ UNCHANGED <<windows, host, relays, stops>>

\* line 163: the interval sleep of iteration i
Sleep(t) ==
    /\ pc[t] = "sleep"
    /\ sleeps' = [sleeps EXCEPT ![t] = @ + 1]
    /\ pc' = [pc EXCEPT ![t] = "probe"]
    /\ UNCHANGED <<needs, lport, i, mypid, seen, okOn, probes, result,
                   retPort>>
    /\ UNCHANGED <<windows, host, locks, relays, shared, stops>>

\* lines 166-172: the GET of iteration i answered with a success status
ProbeReady(t) ==
    /\ pc[t] = "probe"
    /\ CanAnswer(lport[t])
    /\ probes' = [probes EXCEPT ![t] = @ + 1]
    /\ okOn' = [okOn EXCEPT ![t] = lport[t]]
    /\ pc' = [pc EXCEPT ![t] = "settle"]
    /\ UNCHANGED <<needs, lport, i, mypid, seen, sleeps, result, retPort>>
    /\ UNCHANGED <<windows, host, locks, relays, shared, stops>>

\* lines 172-174: the extra sleep is over, return Ok(port)
ReturnReady(t) ==
    /\ pc[t] = "settle"
    /\ Return(t, OkResult, lport[t])
    /\ UNCHANGED <<okOn, sleeps, probes>>
    /\ UNCHANGED <<windows, host, locks, relays, shared, stops>>

\* lines 176-184: a non-success status or a connection error, and another
\* iteration follows
ProbeNotReady(t) ==
    /\ pc[t] = "probe"
    /\ i[t] + 1 < MaxAttempts
    /\ probes' = [probes EXCEPT ![t] = @ + 1]
    /\ i' = [i EXCEPT ![t] = @ + 1]
    /\ pc' = [pc EXCEPT ![t] = "sleep"]
    /\ UNCHANGED <<needs, lport, mypid, seen, okOn, sleeps, result, retPort>>
    /\ UNCHANGED <<windows, host, locks, relays, shared, stops>>

\* faulty variant: the loop gives up one iteration early
ProbeTimeout_Early(t) ==
    /\ pc[t] = "probe"
    /\ i[t] + 1 = MaxAttempts - 1
    /\ probes' = [probes EXCEPT ![t] = @ + 1]
    /\ Return(t, ErrTimeout, 0)
    /\ UNCHANGED <<okOn, sleeps>>
    /\ UNCHANGED <<windows, host, locks, relays, shared, stops>>

\* lines 176-187: the GET of the last iteration fails, the loop ends and the
\* call returns the timeout error
ProbeTimeout(t) ==
    /\ pc[t] = "probe"
    /\ i[t] + 1 = MaxAttempts
    /\ probes' = [probes EXCEPT ![t] = @ + 1]
    /\ Return(t, ErrTimeout, 0)
    /\ UNCHANGED <<okOn, sleeps>>
    /\ UNCHANGED <<windows, host, locks, relays, shared, stops>>

\* the steps of start_backend outside the failing iterations of the loop
StartSteps(t) ==
    \/ CheckChild(t) \/ ReadPort(t) \/ ProbeHealthy(t) \/ ProbeStale(t)
    \/ Teardown(t) \/ AllocPort(t) \/ AllocFail(t) \/ Launch(t)
    \/ LaunchFail(t) \/ StoreChild(t) \/ StorePort(t) \/ Sleep(t)
    \/ ProbeReady(t) \/ ReturnReady(t)

\* lines 46-188, every iteration of the loop a step of its own
start_backend(t) == StartSteps(t) \/ ProbeNotReady(t) \/ ProbeTimeout(t)

\* faulty variant: the timed-out child is taken out of the state and killed
ProbeNeverReady_Kills(t) ==
    /\ pc[t] = "probe"
    /\ probes' = [probes EXCEPT ![t] = @ + (MaxAttempts - i[t])]
    /\ sleeps' = [sleeps EXCEPT ![t] = @ + (MaxAttempts - i[t] - 1)]
    /\ Return(t, ErrTimeout, 0)
    /\ IF child # NoChild
         THEN /\ Terminate(child, TRUE, TRUE)
              /\ child' = NoChild
         ELSE UNCHANGED <<child, killIssued, treeKilled, alive, procPort>>
    /\ UNCHANGED <<port, spawned, recorded, relayOn>>
    /\ UNCHANGED <<okOn>>
    /\ UNCHANGED <<windows, host, locks, relays, stops>>

\* A failing iteration reads and writes nothing of BackendState, so a run of
\* failing iterations commutes with every step of the other tasks: with
\* concurrent invocations the run of failures up to the end of the loop is
\* taken as one step.
\* lines 162-187: this GET and every later one of the loop fail
ProbeNeverReady(t) ==
    /\ pc[t] = "probe"
    /\ probes' = [probes EXCEPT ![t] = @ + (MaxAttempts - i[t])]
    /\ sleeps' = [sleeps EXCEPT ![t] = @ + (MaxAttempts - i[t] - 1)]
    /\ Return(t, ErrTimeout, 0)
    /\ UNCHANGED <<okOn>>
    /\ UNCHANGED <<windows, host, locks, relays, shared, stops>>

start_backend_coarse(t) == StartSteps(t) \/ ProbeNeverReady(t)

\* ---- stop_backend ----

\* faulty variant: stopping with nothing to stop is reported as an error
StopNone_Errs ==
    /\ child = NoChild
    /\ stopRet' = ErrKill
    /\ ChildGuard
    /\ UNCHANGED <<windows, host, relays, shared, locals>>

\* lines 195-209, no child recorded
StopNone ==
    /\ child = NoChild
    /\ stopRet' = OkResult
    /\ ChildGuard
    /\ UNCHANGED <<windows, host, relays, shared, locals>>

\* lines 196-208, kill() returned Ok
StopKilled ==
    /\ child # NoChild
    /\ \E treeOk \in BOOLEAN : Terminate(child, TRUE, treeOk)
    /\ child' = NoChild
    /\ stopRet' = OkResult
    /\ UNCHANGED <<port, spawned, recorded, relayOn>>
    /\ ChildGuard
    /\ UNCHANGED <<windows, host, relays, locals>>

\* faulty variant: the failed kill leaves the handle in the state
StopKillErr_KeepsChild ==
    /\ child # NoChild
    /\ killIssued' = killIssued \cup {child}
    /\ child' = child
    /\ stopRet' = ErrKill
    /\ UNCHANGED <<port, spawned, alive, procPort, treeKilled, recorded,
                   relayOn>>
    /\ ChildGuard
    /\ UNCHANGED <<windows, host, relays, locals>>

\* line 201: kill() returned Err, `?` returns it to the caller
StopKillErr ==
    /\ child # NoChild
    /\ killIssued' = killIssued \cup {child}
    /\ child' = NoChild
    /\ stopRet' = ErrKill
    /\ UNCHANGED <<port, spawned, alive, procPort, treeKilled, recorded,
                   relayOn>>
    /\ ChildGuard
    /\ UNCHANGED <<windows, host, relays, locals>>

stop_backend == StopNone \/ StopKilled \/ StopKillErr

\* ---- cleanup_backend ----

\* lines 343-357
cleanup_backend ==
    /\ IF child # NoChild
         THEN /\ \E killOk \in BOOLEAN, treeOk \in BOOLEAN :
                    Terminate(child, killOk, treeOk)
              /\ child' = NoChild
         ELSE UNCHANGED <<child, killIssued, treeKilled, alive, procPort>>
    /\ UNCHANGED <<port, spawned, recorded, relayOn>>
    /\ ChildGuard
    /\ UNCHANGED <<windows, relays, locals, stops>>

\* ---- the host: window events, menu events, get_backend_port ----

\* The event handlers run on the main thread, one at a time; the async
\* commands run on the threads of the async runtime.  A handler releases the
\* child lock when cleanup_backend returns, so the commands interleave with
\* the rest of the handler.

\* no event handler is running on the main thread
MainThreadFree == menu \in {"idle", "restarted", "nowindow"}

\* lines 501-507: CloseRequested of a window
on_window_event ==
    /\ MainThreadFree
    /\ cleanup_backend
    /\ UNCHANGED host

\* lines 212-215
get_backend_port ==
    /\ PortGuard
    /\ gotPort' = port
    /\ UNCHANGED <<menu, notified, quitSaw>>
    /\ UNCHANGED <<windows, shared, locals, stops, relays>>

\* lines 465-470: "restart_backend", get_webview_window("main") is Some:
\* cleanup_backend(&state)
RestartCleanup ==
    /\ MainThreadFree
    /\ cleanup_backend
    /\ menu' = "cleaned"
    /\ notified' = 0
    /\ UNCHANGED <<quitSaw, gotPort>>

\* lines 465-466 and 475: get_webview_window("main") is None (the main
\* window was closed while the "config" window of lines 433-443 keeps the
\* application running): the handler does nothing
RestartNoWindow ==
    /\ MainThreadFree
    /\ menu' = "nowindow"
    /\ notified' = 0
    /\ UNCHANGED <<quitSaw, gotPort>>
    /\ UNCHANGED <<windows, shared, locals, stops, locks, relays>>

\* faulty variant: the notification is emitted twice
RestartEmit_Twice ==
    /\ menu = "cleaned"
    /\ notified' = notified + 2
    /\ menu' = "restarted"
    /\ UNCHANGED <<quitSaw, gotPort>>
    /\ UNCHANGED <<windows, shared, locals, stops, locks, relays>>

\* lines 472-475: window.emit("restart-backend", ()), the handler returns
RestartEmit ==
    /\ menu = "cleaned"
    /\ notified' = notified + 1
    /\ menu' = "restarted"
    /\ UNCHANGED <<quitSaw, gotPort>>
    /\ UNCHANGED <<windows, shared, locals, stops, locks, relays>>

\* lines 427-430: "quit": cleanup_backend(&state)
QuitCleanup ==
    /\ MainThreadFree
    /\ cleanup_backend
    /\ quitSaw' = child
    /\ menu' = "quitting"
    /\ UNCHANGED <<notified, gotPort>>

\* line 431: std::process::exit(0); nothing of the host runs after it
QuitExit ==
    /\ menu = "quitting"
    /\ menu' = "exited"
    /\ UNCHANGED <<notified, quitSaw, gotPort>>
    /\ UNCHANGED <<windows, shared, locals, stops, locks, relays>>

\* ---- the output relay ----

\* CommandEvent variants the channel carries
Kinds == {"Stdout", "Stderr", "Terminated", "Error"}

\* lines 143, 148, 152: the event emitted for an item of the kind
EventName(kind) ==
    CASE kind = "Stdout" -> "backend-output"
      [] kind = "Stderr" -> "backend-error"
      [] kind = "Terminated" -> "backend-terminated"

\* items sent on the channel of q so far
Sent(q) == Len(received[q]) + Len(rx[q])

\* items sent on the channels of the processes 1..n
RECURSIVE SentTo(_)
SentTo(n) == IF n = 0 THEN 0 ELSE Sent(n) + SentTo(n - 1)

\* lines 116-118: spawn() returns the receiver rx of the child's events; the
\* sender puts an item on the channel.  An item is its kind and its place in
\* the order of arrival.
Send(q, kind) ==
    /\ q \in 1..spawned
    /\ q \notin closed
    /\ SentTo(MaxSpawns) < MaxItems
    /\ rx' = [rx EXCEPT ![q] = Append(@, <<kind, Sent(q) + 1>>)]
    /\ UNCHANGED <<closed, received, emitted, relayDone>>
    /\ UNCHANGED <<windows, shared, locals, stops, host, locks>>

\* the sender is dropped: the stream of q is closed
Close(q) ==
    /\ q \in 1..spawned
    /\ q \notin closed
    /\ closed' = closed \cup {q}
    /\ UNCHANGED <<rx, received, emitted, relayDone>>
    /\ UNCHANGED <<windows, shared, locals, stops, host, locks>>

\* faulty variant: the loop goes on after the termination notice
RelayRecv_NoBreak(q) ==
    /\ q \in relayOn \ relayDone
    /\ rx[q] # <<>>
    /\ LET event == Head(rx[q]) IN
         /\ rx' = [rx EXCEPT ![q] = Tail(@)]
         /\ received' = [received EXCEPT ![q] = Append(@, event)]
         /\ emitted' = IF event[1] \in {"Stdout", "Stderr", "Terminated"}
                         THEN [emitted EXCEPT ![q] =
                                 Append(@, <<EventName(event[1]), event[2]>>)]
                         ELSE emitted
         /\ relayDone' = relayDone
    /\ UNCHANGED closed
    /\ UNCHANGED <<windows, shared, locals, stops, host, locks>>

\* lines 138-156: rx.recv() returned Some(event): one emit for a Stdout, a
\* Stderr or a Terminated item, none for another item, break after Terminated
RelayRecv(q) ==
    /\ q \in relayOn \ relayDone
    /\ rx[q] # <<>>
    /\ LET event == Head(rx[q]) IN
         /\ rx' = [rx EXCEPT ![q] = Tail(@)]
         /\ received' = [received EXCEPT ![q] = Append(@, event)]
         /\ emitted' = IF event[1] \in {"Stdout", "Stderr", "Terminated"}
                         THEN [emitted EXCEPT ![q] =
                                 Append(@, <<EventName(event[1]), event[2]>>)]
                         ELSE emitted
         /\ relayDone' = IF event[1] = "Terminated"
                           THEN relayDone \cup {q}
                           ELSE relayDone
    /\ UNCHANGED closed
    /\ UNCHANGED <<windows, shared, locals, stops, host, locks>>

\* line 138: rx.recv() returned None, the channel is closed and empty: the
\* while loop and the task end
RelayEnd(q) ==
    /\ q \in relayOn \ relayDone
    /\ rx[q] = <<>>
    /\ q \in closed
    /\ relayDone' = relayDone \cup {q}
    /\ UNCHANGED <<rx, closed, received, emitted>>
    /\ UNCHANGED <<windows, shared, locals, stops, host, locks>>

\* ---- the system ----

\* run(), lines 361-364
Init ==
    /\ windows \in BOOLEAN
    /\ port = InitialPort
    /\ child = NoChild
    /\ spawned = 0
    /\ alive = {}
    /\ procPort = [q \in Pids |-> 0]
    /\ killIssued = {}
    /\ treeKilled = {}
    /\ recorded = {}
    /\ relayOn = {}
    /\ pc = [t \in Tasks |-> "idle"]
    /\ needs = [t \in Tasks |-> FALSE]
    /\ lport = [t \in Tasks |-> 0]
    /\ i = [t \in Tasks |-> 0]
    /\ mypid = [t \in Tasks |-> 0]
    /\ seen = [t \in Tasks |-> NoChild]
    /\ okOn = [t \in Tasks |-> 0]
    /\ sleeps = [t \in Tasks |-> 0]
    /\ probes = [t \in Tasks |-> 0]
    /\ result = [t \in Tasks |-> NoResult]
    /\ retPort = [t \in Tasks |-> 0]
    /\ stopRet = NoResult
    /\ menu = "idle"
    /\ notified = 0
    /\ quitSaw = NoChild
    /\ gotPort = 0
    /\ childLock = Free
    /\ portLock = Free
    /\ rx = [q \in Pids |-> <<>>]
    /\ closed = {}
    /\ received = [q \in Pids |-> <<>>]
    /\ emitted = [q \in Pids |-> <<>>]
    /\ relayDone = {}

\* two concurrent invocations of start_backend, stop_backend, cleanup on a
\* window close
Next ==
    \/ \E t \in Tasks : start_backend_coarse(t)
    \/ stop_backend
    \/ on_window_event

Spec == Init /\ [][Next]_vars

\* one invocation of start_backend at a time, every loop iteration a step
NextSolo ==
    \/ start_backend(1)
    \/ stop_backend
    \/ on_window_event

SpecSolo == Init /\ [][NextSolo]_vars

\* the host is running: std::process::exit has not been called
Running == menu # "exited"

\* one invocation of start_backend at a time, the commands and the event
\* handlers of the host, up to the exit of the host
NextHost ==
    \/ Running /\ CheckChild(1)
    \/ Running /\ ReadPort(1)
    \/ Running /\ ProbeHealthy(1)
    \/ Running /\ ProbeStale(1)
    \/ Running /\ Teardown(1)
    \/ Running /\ AllocPort(1)
    \/ Running /\ AllocFail(1)
    \/ Running /\ Launch(1)
    \/ Running /\ LaunchFail(1)
    \/ Running /\ StoreChild(1)
    \/ Running /\ StorePort(1)
    \/ Running /\ Sleep(1)
    \/ Running /\ ProbeReady(1)
    \/ Running /\ ReturnReady(1)
    \/ Running /\ ProbeNeverReady(1)
    \/ Running /\ StopNone
    \/ Running /\ StopKilled
    \/ Running /\ StopKillErr
    \/ Running /\ get_backend_port
    \/ on_window_event
    \/ RestartCleanup
    \/ RestartNoWindow
    \/ RestartEmit
    \/ QuitCleanup
    \/ QuitExit

SpecHost == Init /\ [][NextHost]_vars

\* The relay task and the channel it reads.  A relay task shares nothing
\* with the supervisor or with another relay task but its start: Launch
\* creates the channel, StorePort spawns the task, and no other step reads
\* or writes a channel.  The supervisor is therefore run along one
\* invocation of start_backend that spawns, its health GET answered.
NextRelay ==
    \/ CheckChild(1)
    \/ AllocPort(1)
    \/ Launch(1)
    \/ StoreChild(1)
    \/ StorePort(1)
    \/ Sleep(1)
    \/ ProbeReady(1)
    \/ ReturnReady(1)
    \/ \E q \in Pids, kind \in Kinds : Send(q, kind)
    \/ \E q \in Pids : Close(q)
    \/ \E q \in Pids : RelayRecv(q)
    \/ \E q \in Pids : RelayEnd(q)

SpecRelay == Init /\ [][NextRelay]_vars

TypeOK ==
    /\ windows \in BOOLEAN
    /\ port \in Ports \cup {InitialPort}
    /\ child \in {NoChild} \cup Pids
    /\ spawned \in 0..MaxSpawns
    /\ alive \subseteq 1..spawned
    /\ killIssued \subseteq recorded
    /\ treeKilled \subseteq killIssued
    /\ relayOn \subseteq recorded
    /\ recorded \subseteq 1..spawned
    /\ \A q \in Pids : procPort[q] \in Ports \cup {0}
    /\ \A t \in Tasks : mypid[t] \in 0..spawned
    /\ menu \in {"idle", "cleaned", "restarted", "nowindow", "quitting",
                 "exited"}
    /\ notified \in 0..1
    /\ quitSaw \in {NoChild} \cup Pids
    /\ gotPort \in Ports \cup {InitialPort, 0}
    /\ childLock = Free /\ portLock = Free
    /\ relayDone \subseteq relayOn
    /\ closed \subseteq 1..spawned

\* ---- properties ----

InFlight(t) == pc[t] \notin {"idle", "done"}

\* the step is one of task t's invocation of start_backend
StepOf(t) == pc'[t] # pc[t]

\* the step is the return of task t's invocation
Returns(t) == pc[t] # "done" /\ pc'[t] = "done"

\* t and u are invocations that found no child and no process exists but
\* the ones they spawned: they started concurrently in the initial state
FromInitial(t, u) ==
    /\ t # u
    /\ InFlight(t) /\ InFlight(u)
    /\ seen[t] = NoChild /\ seen[u] = NoChild
    /\ spawned = Cardinality({mypid[t], mypid[u]} \ {0})

\* C1: when two start() calls run concurrently from the initial state, by
\* the time both are about to return a port exactly one backend process has
\* been spawned and both return the same port.
C1_OneSpawnSamePort ==
    \A t \in Tasks, u \in Tasks :
        (FromInitial(t, u) /\ pc[t] = "settle" /\ pc[u] = "settle")
            => (spawned = 1 /\ lport[t] = lport[u])

\* C2: in every reachable state at most one backend process that has not
\* been signaled for termination is alive.
C2_AtMostOneAlive == Cardinality(alive \ killIssued) <= 1

\* C3: whenever start() has returned Ok(p), a GET to the health endpoint on
\* port p was answered with a success status during that same call.
C3_HealthGated ==
    \A t \in Tasks :
        result[t] = OkResult => (retPort[t] # 0 /\ okOn[t] = retPort[t])

\* both return paths have been taken: task 1 found the recorded child
\* healthy (no probe of the loop), task 2 passed the probe loop
C3_Witness ==
    /\ result[1] = OkResult /\ probes[1] = 0 /\ okOn[1] = retPort[1]
    /\ result[2] = OkResult /\ probes[2] > 0 /\ okOn[2] = retPort[2]

\* C4: if a child is recorded and its health probe fails, then when that
\* start() returns the child it found recorded has been taken out of the
\* state and signaled for termination, and, unless port allocation or spawn
\* failed, a replacement on a newly allocated port was launched and recorded.
C4_StaleReplaced ==
    [][\A t \in Tasks :
         (Returns(t) /\ needs[t])
            => /\ seen[t] \in killIssued'
               /\ child' # seen[t]
               /\ (result'[t] \notin {ErrPort, ErrSpawn}
                     => (mypid[t] # 0 /\ mypid[t] \in recorded'))]_vars

Undisturbed(t) == killIssued = {} /\ recorded = {mypid[t]}

\* C6: from the moment start() has recorded the child it launched up to its
\* return of the health-timeout error, start() itself neither takes the child
\* out of the state nor issues a kill; when nothing else has run in between,
\* the child it launched is still recorded and not killed at that return.
C6_TimeoutLeavesChild ==
    [][\A t \in Tasks :
         StepOf(t) =>
            /\ (pc[t] = "storechild" => child' = mypid[t])
            /\ (pc[t] \in {"storeport", "sleep", "probe", "settle"}
                  => (child' = child /\ killIssued' = killIssued
                        /\ treeKilled' = treeKilled /\ alive' = alive))
            /\ (result'[t] = ErrTimeout
                  => (pc[t] = "probe" /\ mypid[t] # 0
                        /\ (Undisturbed(t)
                              => (child' = mypid[t]
                                    /\ mypid[t] \notin killIssued'
                                    /\ mypid[t] \in alive'))))]_vars

\* a call has returned the timeout error, the only process ever spawned is
\* still recorded and no kill was issued
C6_Witness ==
    /\ result[1] = ErrTimeout /\ pc[1] = "done" /\ pc[2] = "idle"
    /\ spawned = 1 /\ child = 1 /\ killIssued = {} /\ 1 \in alive

\* C7: stop() with no child recorded returns success, issues no kill or
\* tree-kill and leaves port and child unchanged; every stop() leaves no
\* child recorded, so a second stop() right after it is such a no-op.
C7_StopIdempotent ==
    [][stop_backend =>
         /\ child' = NoChild
         /\ (child = NoChild
               => (stopRet' = OkResult /\ port' = port
                     /\ killIssued' = killIssued /\ treeKilled' = treeKilled
                     /\ alive' = alive))]_vars

\* stop() has returned success although no process was ever spawned
C7_Witness == stopRet = OkResult /\ spawned = 0 /\ child = NoChild

\* C8: after any stop() returns, the process recorded when it began is no
\* longer alive, and on Windows a process-tree kill on it has been issued.
C8_StopTerminates ==
    [][(stop_backend /\ child # NoChild) =>
         (child \notin alive' /\ (windows => child \in treeKilled'))]_vars

\* C9: start() with a child recorded whose immediate probe succeeds returns
\* the port it read from the state and is a no-op: no step of it changes
\* port, child or any process, and it spawned nothing.
C9_HealthyNoOp ==
    [][\A t \in Tasks :
         StepOf(t) =>
            /\ ((pc[t] \in {"idle", "done", "readport", "probe0"}
                   /\ pc'[t] \in {"readport", "probe0", "done"})
                  => UNCHANGED shared)
            /\ (pc[t] = "readport" => lport'[t] = port)
            /\ ((pc[t] = "probe0" /\ pc'[t] = "done")
                  => (result'[t] = OkResult /\ retPort'[t] = lport[t]
                        /\ mypid[t] = 0 /\ seen[t] # NoChild
                        /\ probes'[t] = 0))]_vars

\* a call has returned the recorded port of the recorded child without a
\* probe of the loop
C9_Witness ==
    /\ result[1] = OkResult /\ probes[1] = 0 /\ retPort[1] = port
    /\ child # NoChild /\ child \in alive /\ killIssued = {} /\ spawned = 1

\* C10: a failure of the standard kill during stop() is not escalated:
\* stop() still returns success and, on Windows, the process-tree kill on the
\* recorded identifier is still issued.
C10_KillFailureNotEscalated ==
    [][StopKillErr =>
         (stopRet' = OkResult /\ (windows => child \in treeKilled'))]_vars

\* the step begins the handling of a "restart_backend" menu event
RestartRequest == RestartCleanup \/ RestartNoWindow

\* the step is one of the "restart_backend" handler
RestartStep == RestartRequest \/ RestartEmit

\* C11: every restart request stops the recorded backend (child becomes
\* absent, a kill is issued on it) and then emits exactly one restart-backend
\* notification, in that order; no step of restart spawns a process.
C11_RestartStopsThenNotifies ==
    [][/\ RestartRequest
            => /\ child' = NoChild
               /\ (child # NoChild => child \in killIssued')
               /\ menu' = "cleaned"
       /\ RestartEmit => (menu = "cleaned" /\ notified = 0 /\ notified' = 1)
       /\ RestartStep => (spawned' = spawned /\ alive' \subseteq alive)]_vars

\* C11 as amended: a restart request that finds the main window stops the
\* recorded backend (child becomes absent, a kill is issued on it) and then
\* emits exactly one restart-backend notification, in that order; a request
\* that finds no main window changes nothing and emits nothing; no step of
\* restart spawns a process.
C11_RestartWithWindow ==
    [][/\ RestartCleanup
            => /\ child' = NoChild
               /\ (child # NoChild => child \in killIssued')
               /\ menu' = "cleaned"
       /\ RestartNoWindow
            => (UNCHANGED <<shared, locals, stops>> /\ notified' = 0
                  /\ menu' = "nowindow")
       /\ RestartEmit => (menu = "cleaned" /\ notified = 0 /\ notified' = 1)
       /\ RestartStep => (spawned' = spawned /\ alive' \subseteq alive)]_vars

\* a restart request was handled to its end while a backend was recorded: it
\* was killed, nothing is recorded and one notification was emitted
C11_Witness ==
    /\ menu = "restarted" /\ notified = 1
    /\ spawned = 1 /\ killIssued = {1} /\ child = NoChild
    /\ stopRet = NoResult /\ pc[1] = "done"

\* C12: cleanup runs to completion within the handler of a window close and
\* of quit; when the host exits via quit no child is recorded and a kill has
\* been issued on the child that was recorded when the quit event arrived.
C12_CleanupBeforeExit ==
    [][/\ (on_window_event \/ QuitCleanup)
            => (child' = NoChild /\ (child # NoChild => child \in killIssued'))
       /\ QuitExit
            => (child = NoChild
                  /\ (quitSaw # NoChild => quitSaw \in killIssued))]_vars

\* C13: the call in which port allocation or spawn fails returns the error
\* from where it failed without another attempt; up to that return it
\* records no child, leaves the recorded port unchanged, starts no output
\* relay, spawns nothing and performs no probe of the loop.
C13_FailureLeavesState ==
    [][\A t \in Tasks :
         /\ (StepOf(t) /\ mypid[t] = 0 /\ mypid'[t] = 0)
               => /\ port' = port /\ recorded' = recorded
                  /\ relayOn' = relayOn /\ spawned' = spawned
                  /\ child' \in {child, NoChild}
                  /\ probes'[t] = 0 /\ sleeps'[t] = 0
         /\ (Returns(t) /\ result'[t] \in {ErrPort, ErrSpawn})
               => /\ pc[t] = (IF result'[t] = ErrPort THEN "alloc"
                                                      ELSE "launch")
                  /\ mypid[t] = 0
                  /\ UNCHANGED shared]_vars

\* both failures have been returned: task 1 failed to spawn, task 2 failed
\* to allocate a port, and the recorded port is the initial one
C13_Witness ==
    /\ result[1] = ErrSpawn /\ result[2] = ErrPort
    /\ port = InitialPort /\ recorded = {} /\ relayOn = {}

Suspended(t) == pc[t] \in {"probe0", "sleep", "probe", "settle"}

\* C15: while a start() is suspended in a health GET or in a sleep it holds
\* neither lock, and stop(), cleanup() and get_port() can each run to their
\* end at that point.
C15_NoLockAcrossAwait ==
    \A t \in Tasks :
        Suspended(t)
            => /\ childLock # t /\ portLock # t
               /\ ENABLED stop_backend
               /\ ENABLED cleanup_backend
               /\ ENABLED get_backend_port

\* while start() waits in its probe loop, the child it spawned has been
\* taken and killed and get_backend_port has returned the port it stored
C15_Witness ==
    /\ pc[1] = "probe" /\ mypid[1] # 0
    /\ mypid[1] \in killIssued /\ child = NoChild
    /\ gotPort = lport[1] /\ stopRet # NoResult

\* C16: a stop() or a cleanup() called with a child recorded leaves no child
\* recorded, whether the kill succeeded or failed and whether the call
\* returned success or an error.
C16_ChildAbsentAfterStop ==
    [][(child # NoChild /\ pc' = pc /\ (stop_backend \/ cleanup_backend))
          => (child' = NoChild /\ child \in killIssued')]_vars

\* stop() has returned the kill error: the process it was to kill still
\* runs and no child is recorded
C16_Witness ==
    /\ stopRet = ErrKill /\ child = NoChild
    /\ spawned = 1 /\ alive = {1} /\ killIssued = {1}

\* C17: in every state where no start() is between its write of child and
\* its write of port, the recorded port is the port the recorded child was
\* launched with.
C17_PortOfChild ==
    ((\A t \in Tasks : pc[t] # "storeport") /\ child # NoChild)
        => port = procPort[child]

\* C18: every process that was recorded and was not signaled for
\* termination is the one held in child.
C18_NoHandleLeak == (recorded \ killIssued) \subseteq {child}

\* the events lines 139-156 emit for the items s, in the order of s
RECURSIVE Relayed(_)
Relayed(s) ==
    IF s = <<>> THEN <<>>
    ELSE (IF Head(s)[1] \in {"Stdout", "Stderr", "Terminated"}
            THEN <<<<EventName(Head(s)[1]), Head(s)[2]>>>>
            ELSE <<>>) \o Relayed(Tail(s))

\* C19: for the items the relay has received, in their order of arrival, it
\* has emitted one event per Stdout, Stderr and Terminated item and none
\* other, in that order; it receives nothing after the termination item, and
\* it has ended exactly when it emitted the termination notice or found the
\* stream closed.
C19_RelayInOrder ==
    \A q \in Pids :
        /\ emitted[q] = Relayed(received[q])
        /\ \A k \in 1..Len(received[q]) :
              /\ received[q][k][2] = k
              /\ (received[q][k][1] = "Terminated" => k = Len(received[q]))
        /\ (q \notin relayOn => received[q] = <<>>)
        /\ (q \in relayDone
              => \/ (received[q] # <<>>
                       /\ received[q][Len(received[q])][1] = "Terminated")
                 \/ (q \in closed /\ rx[q] = <<>>))
        /\ ((received[q] # <<>>
               /\ received[q][Len(received[q])][1] = "Terminated")
              => q \in relayDone)

\* the relay of child 1 has relayed a stdout line, skipped an error item,
\* relayed the termination notice and ended
C19_Witness ==
    /\ 1 \in relayDone
    /\ emitted[1] = << <<"backend-output", 1>>, <<"backend-terminated", 3>> >>
    /\ Len(received[1]) = 3

\* C20: the kill that the teardown of a start() issues is only on the child
\* whose probe this start() saw fail: when that child has meanwhile been
\* taken and killed by a stop() and another start() has recorded a new
\* child, the teardown kills nothing.
C20_TeardownKillsOwnStale ==
    [][\A t \in Tasks :
         (StepOf(t) /\ pc[t] = "teardown" /\ seen[t] \in killIssued)
            => killIssued' = killIssued]_vars

====
